---- MODULE Spec2Model ----
(***************************************************************************)
(* google-github-actions/ssh-compute: the main phase (src/main.ts, run)     *)
(* and the cleanup phase (src/post.ts, run) of the action, as a state       *)
(* machine over the runner's file system, the job environment, the tool    *)
(* cache and the position of each invocation of the action.                *)
(*                                                                         *)
(* Texts that the code joins, logs or embeds in messages are sequences of  *)
(* words (the text split at single spaces); "contains" is contiguous       *)
(* sub-sequence.  Atoms (paths, versions, names) are plain strings.        *)
(* Permission modes are sets of permission bits.                           *)
(***************************************************************************)
EXTENDS Integers, Sequences, FiniteSets, TLC

\* ------------------------------------------------------------------ bounds
MaxRuns == 2
MaxPost == 2
MaxKeyLen == 4

Runs == 1..MaxRuns

\* ------------------------------------------------------- program constants
SSH_PRIVATE_KEY_FILENAME == "google_compute_engine"
SSH_PUBLIC_KEY_FILENAME == "google_compute_engine.pub"
FAIL_TAG == <<"google-github-actions/ssh-compute", "failed", "with:">>
POST_FAIL_TAG == <<"google-github-actions/ssh-compute", "post", "failed", "with:">>
SKIP_MSG == <<"Skipping", "ssh", "keys", "directory", "cleanup">>

AllBits == {"ur", "uw", "ux", "gr", "gw", "gx", "or", "ow", "ox"}
Mode600 == {"ur", "uw"}
Mode644 == {"ur", "uw", "gr", "or"}
Mode640 == {"ur", "uw", "gr"}
Mode777 == AllBits

\* the process umask of the runner: a created file or directory gets
\* (requested mode) minus (umask)
Umasks == {{"gw", "ow"}, {"gr", "gw", "gx", "or", "ow", "ox"}}

\* ------------------------------------------------------------ input domains
Commands == {<<>>, <<"echo", "hi">>}
Scripts == {"", "script.sh"}
Versions == {"", "latest", "1.2.3"}
Components == {"", "alpha", "beta", "wrong_value"}
KeysDirs == {"", "temp-dir"}
\* "B" is the marker -----BEGIN, "x" a body character, " " and "\n" whitespace
PrivateKeys == {<<"B", "x">>, <<"x">>}
Stderrs == {<<>>, <<"permission", "denied">>}
ExitCodes == {0, 1, 255}

LatestVersion == "999.0.0"
\* the words of the text of a script file: "echo 1\necho 2\n"
ScriptData == <<"echo", "1\necho", "2\n">>
\* the texts a script file can hold: with newlines, with a double quote and
\* a run of two spaces, and the empty file
ScriptTexts == {ScriptData, <<"say", "\"a", "", "b\"">>, <<>>}

\* the value of the input flags, as its characters
NoFlags == <<>>
Flags == {NoFlags,
          <<"-", "-", "f", "=", "v", " ", "\"", "a", " ", "b", "\"">>,
          <<" ", "=">>}

\* the inputs of an invocation; the optional inputs user, container,
\* project_id, ssh_args and flags are left empty
Inputs ==
  [instance_name : {"vm1"}, zone : {"z1"}, user : {""},
   ssh_private_key : PrivateKeys, ssh_keys_dir : KeysDirs,
   container : {""}, ssh_args : {<<>>}, command : Commands,
   script : Scripts, project_id : {""}, gcloud_version : Versions,
   gcloud_component : Components, flags : {NoFlags}]

Users == {"", "alice"}
Containers == {"", "c1"}
Projects == {"", "p1"}
SshArgs == {<<>>, <<"-vvv", "-L", "80:%INSTANCE%:80">>}
ParsableKeys == {<<"B", "x">>, <<"B", "x", "B", "x">>}

\* the inputs of an invocation with the optional inputs drawn too; the
\* gcloud version is pinned
OptionInputs ==
  [instance_name : {"vm1"}, zone : {"z1"}, user : Users,
   ssh_private_key : ParsableKeys, ssh_keys_dir : KeysDirs,
   container : Containers, ssh_args : SshArgs, command : Commands,
   script : Scripts, project_id : Projects, gcloud_version : {"1.2.3"},
   gcloud_component : {"", "beta"}, flags : Flags]

\* the characters of a private key text, and the texts of up to MaxKeyLen
\* characters
KeyChars == {"B", "x", " ", "\n"}
KeyTexts == UNION {[1..n -> KeyChars] : n \in 0..MaxKeyLen}

\* the inputs of an invocation pinned to the directory temp-dir
PinnedInputs ==
  [instance_name : {"vm1"}, zone : {"z1"}, user : {""},
   ssh_private_key : {<<"B", "x">>}, ssh_keys_dir : {"temp-dir"},
   container : {""}, ssh_args : {<<>>}, command : {<<"echo", "hi">>},
   script : {""}, project_id : {""}, gcloud_version : {"1.2.3"},
   gcloud_component : {""}, flags : {NoFlags}]

\* the inputs of an invocation with any text as the private key
KeyInputs ==
  [instance_name : {"vm1"}, zone : {"z1"}, user : {""},
   ssh_private_key : KeyTexts, ssh_keys_dir : {""},
   container : {""}, ssh_args : {<<>>}, command : {<<"echo", "hi">>},
   script : {""}, project_id : {""}, gcloud_version : {"1.2.3"},
   gcloud_component : {""}, flags : {NoFlags}]

NoInput ==
  [instance_name |-> "", zone |-> "", user |-> "", ssh_private_key |-> <<>>,
   ssh_keys_dir |-> "", container |-> "", ssh_args |-> <<>>,
   command |-> <<>>, script |-> "", project_id |-> "",
   gcloud_version |-> "", gcloud_component |-> "", flags |-> NoFlags]

NoLoc ==
  [sshKeysDir |-> "", gcloudVersion |-> "", command |-> <<>>,
   data |-> <<>>, commandData |-> <<>>, cmd |-> <<>>, commandString |-> <<>>,
   exitCode |-> 0, stderr |-> <<>>, rejected |-> <<>>]

\* randomFilepath(): a fresh path, different for every invocation
RandomFilepath(r) == "/tmp/" \o ToString(r)

DirNames == {"temp-dir"} \cup {RandomFilepath(r) : r \in Runs}
FileNames == {SSH_PRIVATE_KEY_FILENAME, SSH_PUBLIC_KEY_FILENAME}

Absent == [exists |-> FALSE, mode |-> {}, data |-> <<>>, by |-> 0]
OldFile == [exists |-> TRUE, mode |-> Mode644, data |-> <<"old">>, by |-> 0]

VARIABLES
  umask,      \* umask of the runner's processes
  dirs,       \* directory name -> [exists, mode, data, by]
  files,      \* <<directory, file name>> -> [exists, mode, data, by]
  env,        \* GOOGLE_SSH_KEYS_TEMP_DIR_VAR in the job environment ("" = unset)
  jobEnv,     \* the same variable of each job, for invocations in jobs of their own
  sdkCache,   \* gcloud versions present in the tool cache
  pc,         \* position of each main-phase invocation
  inp,        \* the inputs of each invocation
  loc,        \* the local variables of run()
  trace,      \* the external calls the running invocation has made, in order
  info,       \* lines the running invocation logged with logInfo
  failed,     \* messages the running invocation passed to setFailed
  thrown,     \* messages of the errors thrown inside the try block of run()
  keyDir,     \* the directory each invocation created with mkdir ("" = none)
  postCount,  \* number of cleanup phases run for each invocation
  postOut,    \* what the last cleanup phase of each invocation did
  rmCalls,    \* directory name -> number of fs.rm calls issued on it
  rmOk        \* directory name -> number of fs.rm calls that succeeded

vars == <<umask, dirs, files, env, jobEnv, sdkCache, pc, inp, loc, trace, info,
          failed, thrown, keyDir, postCount, postOut, rmCalls, rmOk>>

fsVars == <<dirs, files>>
postVars == <<postCount, postOut, rmCalls, rmOk>>

NoPost == [result |-> "none", dir |-> "", log |-> <<>>, setFailed |-> FALSE, threw |-> FALSE]

\* --------------------------------------------------------------- helpers
Path(d, f) == <<d, f>>

\* ${dir}/${file}
PathString(d, f) == d \o "/" \o f

\* exactlyOneOf(command, script): exactly one of the values is non-empty
ExactlyOneOf(command, script) ==
  (command # <<>> /\ script = "") \/ (command = <<>> /\ script # "")

IsWS(c) == c \in {" ", "\n"}

RECURSIVE TrimLeft(_)
TrimLeft(s) ==
  IF s # <<>> /\ IsWS(Head(s)) THEN TrimLeft(Tail(s)) ELSE s

RECURSIVE TrimRight(_)
TrimRight(s) ==
  IF s # <<>> /\ IsWS(s[Len(s)]) THEN TrimRight(SubSeq(s, 1, Len(s) - 1)) ELSE s

Trim(s) == TrimRight(TrimLeft(s))

\* split(/(?=-----BEGIN)/): cut before every marker that is not at index 0
SplitPoints(s) == {i \in 2..Len(s) : s[i] = "B"}

RECURSIVE SplitBegin(_)
SplitBegin(s) ==
  IF SplitPoints(s) = {} THEN <<s>>
  ELSE LET i == CHOOSE k \in SplitPoints(s) : \A j \in SplitPoints(s) : k <= j
       IN <<SubSeq(s, 1, i - 1)>> \o SplitBegin(SubSeq(s, i, Len(s)))

RECURSIVE JoinPieces(_)
JoinPieces(ps) ==
  IF ps = <<>> THEN <<>>
  ELSE Trim(Head(ps)) \o <<"\n">> \o JoinPieces(Tail(ps))

\* the pieces joined without trim()
RECURSIVE JoinPiecesNoTrim(_)
JoinPiecesNoTrim(ps) ==
  IF ps = <<>> THEN <<>>
  ELSE Head(ps) \o <<"\n">> \o JoinPiecesNoTrim(Tail(ps))

NormalizeKeyNoTrim(key) == JoinPiecesNoTrim(SplitBegin(key))

\* correctPrivateKeyData
NormalizeKey(key) == JoinPieces(SplitBegin(key))

\* sshpk.parsePrivateKey accepts the data: it starts with a marker and a body
Parsable(data) == Len(data) >= 2 /\ data[1] = "B" /\ data[2] = "x"

\* publicKeyPemObject.toString('ssh'): one line derived from the key body
PublicKeyOf(data) == <<"ssh-key", data[2]>>

RECURSIVE JoinTokens(_)
JoinTokens(toks) ==
  IF toks = <<>> THEN <<>> ELSE Head(toks) \o JoinTokens(Tail(toks))

Contains(text, phrase) ==
  \E i \in 0..(Len(text) - Len(phrase)) :
    SubSeq(text, i + 1, i + Len(phrase)) = phrase

\* parseFlags: flags.match(/(".*?"|[^"\s=]+)+(?=\s*|\s*$)/g)
\* the index of the next double quote after p (0 when there is none)
NextQuote(s, p) ==
  IF \E q \in (p + 1)..Len(s) : s[q] = "\""
  THEN CHOOSE q \in (p + 1)..Len(s) :
         s[q] = "\"" /\ \A j \in (p + 1)..(q - 1) : s[j] # "\""
  ELSE 0

\* the index of the last character of the match that starts at p (p - 1 when
\* nothing matches there): quoted runs and runs of characters other than a
\* double quote, white space and "=", repeated
RECURSIVE MatchEnd(_, _)
MatchEnd(s, p) ==
  IF p > Len(s) THEN p - 1
  ELSE IF s[p] = "\""
  THEN LET q == NextQuote(s, p) IN
       IF q # 0 /\ \A j \in (p + 1)..(q - 1) : s[j] # "\n"
       THEN MatchEnd(s, q + 1) ELSE p - 1
  ELSE IF IsWS(s[p]) \/ s[p] = "="
  THEN p - 1
  ELSE MatchEnd(s, p + 1)

RECURSIVE MatchesFrom(_, _)
MatchesFrom(s, p) ==
  IF p > Len(s) THEN <<>>
  ELSE LET e == MatchEnd(s, p) IN
       IF e < p THEN MatchesFrom(s, p + 1)
       ELSE <<SubSeq(s, p, e)>> \o MatchesFrom(s, e + 1)

\* the list of matches (match returns null, and nothing is appended to cmd,
\* when there is none)
ParseFlags(flags) == MatchesFrom(flags, 1)

\* the words of a text given as its characters
RECURSIVE WordsFrom(_, _)
WordsFrom(cs, cur) ==
  IF cs = <<>> THEN <<cur>>
  ELSE IF Head(cs) = " " THEN <<cur>> \o WordsFrom(Tail(cs), "")
  ELSE WordsFrom(Tail(cs), cur \o Head(cs))

Words(cs) == WordsFrom(cs, "")

\* if (flags) { flagList = parseFlags(flags); if (flagList) cmd.concat(flagList) }
FlagList(flags) ==
  IF flags = NoFlags THEN <<>>
  ELSE [k \in 1..Len(ParseFlags(flags)) |-> Words(ParseFlags(flags)[k])]

FilesOf(d) == {Path(d, f) : f \in FileNames}
PrivatePath(d) == Path(d, SSH_PRIVATE_KEY_FILENAME)
PublicPath(d) == Path(d, SSH_PUBLIC_KEY_FILENAME)

TypeOK ==
  /\ umask \in Umasks
  /\ env \in DirNames \cup {""}
  /\ pc \in [Runs -> {"idle", "validate", "mkdir", "writePrivate", "parse",
                      "writePublic", "build", "sdk", "component", "auth",
                      "exec", "running", "done", "exited"}]
  /\ \A r \in Runs : postCount[r] \in 0..MaxPost

Init ==
  /\ umask \in Umasks
  /\ \E pre \in SUBSET FileNames \cup {{"nodir"}} :
       /\ dirs = [d \in DirNames |->
                    IF d = "temp-dir" /\ pre # {"nodir"}
                    THEN [exists |-> TRUE, mode |-> Mode777 \ umask,
                          data |-> <<>>, by |-> 0]
                    ELSE Absent]
       /\ files = [p \in DirNames \X FileNames |->
                    IF p[1] = "temp-dir" /\ p[2] \in pre THEN OldFile ELSE Absent]
  /\ env = ""
  /\ jobEnv = [r \in Runs |-> ""]
  /\ sdkCache \in {{}, {"1.2.3"}}
  /\ pc = [r \in Runs |-> "idle"]
  /\ inp = [r \in Runs |-> NoInput]
  /\ loc = [r \in Runs |-> NoLoc]
  /\ trace = [r \in Runs |-> <<>>]
  /\ info = [r \in Runs |-> <<>>]
  /\ failed = [r \in Runs |-> <<>>]
  /\ thrown = [r \in Runs |-> <<>>]
  /\ keyDir = [r \in Runs |-> ""]
  /\ postCount = [r \in Runs |-> 0]
  /\ postOut = [r \in Runs |-> NoPost]
  /\ rmCalls = [d \in DirNames |-> 0]
  /\ rmOk = [d \in DirNames |-> 0]

\* ------------------------------------------------- main phase: src/main.ts
Goto(r, l) == pc' = [pc EXCEPT ![r] = l]
Called(r, what) == trace' = [trace EXCEPT ![r] = Append(@, what)]
\* the number of calls of what that the run has made
Count(r, what) == Cardinality({n \in 1..Len(trace[r]) : trace[r][n] = what})

\* the catch block with a setFailed that passes the message without the tag
ThrowUntagged(r, msg) ==
  /\ thrown' = [thrown EXCEPT ![r] = Append(@, msg)]
  /\ failed' = [failed EXCEPT ![r] = Append(@, msg)]
  /\ Goto(r, "done")

\* throw new Error(msg) inside the try block, then
\* catch (err) { setFailed('... failed with: ' + errorMessage(err)) }
Throw(r, msg) ==
  /\ thrown' = [thrown EXCEPT ![r] = Append(@, msg)]
  /\ failed' = [failed EXCEPT ![r] = Append(@, FAIL_TAG \o msg)]
  /\ Goto(r, "done")

\* computeGcloudVersion: the release metadata is queried for "" and "latest"
NeedsLatest(str) == str \in {"", "latest"}

\* the key directory is a random path whatever ssh_keys_dir is
StartLocRandomDir(i, r, version) ==
  [NoLoc EXCEPT !.sshKeysDir = RandomFilepath(r),
                !.gcloudVersion = version,
                !.command = i.command]

StartLoc(i, r, version) ==
  [NoLoc EXCEPT !.sshKeysDir = IF i.ssh_keys_dir # "" THEN i.ssh_keys_dir
                                ELSE RandomFilepath(r),
                !.gcloudVersion = version,
                !.command = i.command]

\* run(): the inputs are read and the gcloud version is computed
GetInputs(r, from) ==
  /\ pc[r] = "idle"
  /\ \E i \in from :
       /\ inp' = [inp EXCEPT ![r] = i]
       /\ IF NeedsLatest(i.gcloud_version)
          THEN /\ Called(r, "getLatestGcloudSDKVersion")
               /\ \E ok \in BOOLEAN :
                    IF ok
                    THEN /\ loc' = [loc EXCEPT ![r] = StartLoc(i, r, LatestVersion)]
                         /\ Goto(r, "validate")
                         /\ UNCHANGED <<failed, thrown>>
                    ELSE /\ Throw(r, <<"failed", "to", "retrieve", "gcloud", "SDK", "version">>)
                         /\ UNCHANGED loc
          ELSE /\ loc' = [loc EXCEPT ![r] = StartLoc(i, r, i.gcloud_version)]
               /\ Goto(r, "validate")
               /\ UNCHANGED <<trace, failed, thrown>>
  /\ UNCHANGED <<umask, jobEnv, fsVars, env, sdkCache, info, keyDir, postVars>>

RunStart(r) == GetInputs(r, Inputs)

\* (a backquote of the source text is written as an apostrophe in this module)
EITHER_MSG == <<"either", "'command'", "or", "'script'", "should", "be", "set">>
InvalidComponentMsg(c) ==
  <<"invalid", "input", "received", "for", "gcloud_component:", c>>

ValidComponent(c) == c = "" \/ c = "alpha" \/ c = "beta"

\* exportVariable(GOOGLE_SSH_KEYS_TEMP_DIR_VAR, sshKeysDir), then the two
\* input validations
Validate(r) ==
  /\ pc[r] = "validate"
  /\ env' = loc[r].sshKeysDir
  /\ IF ~ExactlyOneOf(inp[r].command, inp[r].script)
     THEN Throw(r, EITHER_MSG)
     ELSE IF ~ValidComponent(inp[r].gcloud_component)
     THEN Throw(r, InvalidComponentMsg(inp[r].gcloud_component))
     ELSE Goto(r, "mkdir") /\ UNCHANGED <<failed, thrown>>
  /\ UNCHANGED <<umask, jobEnv, fsVars, sdkCache, inp, loc, trace, info, keyDir, postVars>>

\* the mode fs.mkdir gives a directory it creates: no mode option is passed
MkdirMode == Mode777

\* await fs.mkdir(sshKeysDir, { recursive: true })
Mkdir(r) ==
  /\ pc[r] = "mkdir"
  /\ Called(r, "mkdir")
  /\ LET d == loc[r].sshKeysDir IN
     \E ok \in BOOLEAN :
       IF ok
       THEN /\ dirs' = IF dirs[d].exists THEN dirs
                       ELSE [dirs EXCEPT ![d] = [exists |-> TRUE,
                                                 mode |-> MkdirMode \ umask,
                                                 data |-> <<>>, by |-> r]]
            /\ keyDir' = [keyDir EXCEPT ![r] = d]
            /\ Goto(r, "writePrivate")
            /\ UNCHANGED <<failed, thrown>>
       ELSE /\ Throw(r, <<"EACCES:", "permission", "denied,", "mkdir", d>>)
            /\ UNCHANGED <<dirs, keyDir>>
  /\ UNCHANGED <<umask, jobEnv, files, env, sdkCache, inp, loc, info, postVars>>

\* fs.writeFile with flag 'w': an existing file is overwritten and keeps its mode
WriteFileW(r, p, data, mode, next) ==
  IF ~dirs[p[1]].exists
  THEN /\ Throw(r, <<"ENOENT:", "no", "such", "file", "or", "directory,", "open",
                     PathString(p[1], p[2])>>)
       /\ UNCHANGED files
  ELSE /\ files' = [files EXCEPT ![p] =
                      [exists |-> TRUE,
                       mode |-> IF files[p].exists THEN files[p].mode ELSE mode \ umask,
                       data |-> data, by |-> r]]
       /\ Goto(r, next)
       /\ UNCHANGED <<failed, thrown>>

\* fs.writeFile with flag 'a': the data is appended to an existing file
WriteFileA(r, p, data, mode, next) ==
  IF ~dirs[p[1]].exists
  THEN /\ Throw(r, <<"ENOENT:", "no", "such", "file", "or", "directory,", "open",
                     PathString(p[1], p[2])>>)
       /\ UNCHANGED files
  ELSE /\ files' = [files EXCEPT ![p] =
                      [exists |-> TRUE,
                       mode |-> IF files[p].exists THEN files[p].mode ELSE mode \ umask,
                       data |-> (IF files[p].exists THEN files[p].data ELSE <<>>) \o data,
                       by |-> r]]
       /\ Goto(r, next)
       /\ UNCHANGED <<failed, thrown>>

\* fs.writeFile(path, data, { mode, flag: 'wx' })
WriteFileWX(r, p, data, mode, next) ==
  IF ~dirs[p[1]].exists
  THEN /\ Throw(r, <<"ENOENT:", "no", "such", "file", "or", "directory,", "open",
                     PathString(p[1], p[2])>>)
       /\ UNCHANGED files
  ELSE IF files[p].exists
  THEN /\ Throw(r, <<"EEXIST:", "file", "already", "exists,", "open",
                     PathString(p[1], p[2])>>)
       /\ UNCHANGED files
  ELSE /\ files' = [files EXCEPT ![p] = [exists |-> TRUE, mode |-> mode \ umask,
                                         data |-> data, by |-> r]]
       /\ Goto(r, next)
       /\ UNCHANGED <<failed, thrown>>

PrivateKeyMode == Mode600
PublicKeyMode == Mode644

\* the key text is parsed before it is written: an unparsable key is never
\* put on disk
WritePrivateKeyParseFirst(r) ==
  /\ pc[r] = "writePrivate"
  /\ Called(r, "writePrivateKey")
  /\ LET data == NormalizeKey(inp[r].ssh_private_key) IN
       /\ loc' = [loc EXCEPT ![r].data = data]
       /\ IF ~Parsable(data)
          THEN /\ Throw(r, <<"Failed", "to", "parse", "(unnamed)", "as", "a", "valid",
                             "ssh-private", "format", "key">>)
               /\ UNCHANGED files
          ELSE WriteFileWX(r, Path(loc[r].sshKeysDir, SSH_PRIVATE_KEY_FILENAME),
                           data, PrivateKeyMode, "parse")
  /\ UNCHANGED <<umask, jobEnv, dirs, env, sdkCache, inp, info, keyDir, postVars>>

\* the key text is normalised and written to <dir>/google_compute_engine
WritePrivateKey(r) ==
  /\ pc[r] = "writePrivate"
  /\ Called(r, "writePrivateKey")
  /\ LET data == NormalizeKey(inp[r].ssh_private_key) IN
       /\ loc' = [loc EXCEPT ![r].data = data]
       /\ WriteFileWX(r, Path(loc[r].sshKeysDir, SSH_PRIVATE_KEY_FILENAME),
                      data, PrivateKeyMode, "parse")
  /\ UNCHANGED <<umask, jobEnv, dirs, env, sdkCache, inp, info, keyDir, postVars>>

\* sshpk.parsePrivateKey, createPublicKey, export, sshpk.parseKey
ParsePrivateKey(r) ==
  /\ pc[r] = "parse"
  /\ IF Parsable(loc[r].data)
     THEN Goto(r, "writePublic") /\ UNCHANGED <<failed, thrown>>
     ELSE Throw(r, <<"Failed", "to", "parse", "(unnamed)", "as", "a", "valid",
                     "ssh-private", "format", "key">>)
  /\ UNCHANGED <<umask, jobEnv, fsVars, env, sdkCache, inp, loc, trace, info, keyDir, postVars>>

\* the derived public key is written to <dir>/google_compute_engine.pub
WritePublicKey(r) ==
  /\ pc[r] = "writePublic"
  /\ Called(r, "writePublicKey")
  /\ WriteFileWX(r, Path(loc[r].sshKeysDir, SSH_PUBLIC_KEY_FILENAME),
                 PublicKeyOf(loc[r].data), PublicKeyMode, "build")
  /\ UNCHANGED <<umask, jobEnv, dirs, env, sdkCache, inp, loc, info, keyDir, postVars>>

\* the words of l + text + r2, for a text given as its words
Wrap(l, ws, r2) ==
  IF ws = <<>> THEN <<l \o r2>>
  ELSE [i \in 1..Len(ws) |->
          (IF i = 1 THEN l ELSE "") \o ws[i] \o (IF i = Len(ws) THEN r2 ELSE "")]

\* cmd with the instance name as the target whatever the user is
BaseCmdNoUser(i, dir) ==
  << <<"compute">>, <<"ssh">>, <<i.instance_name>>,
     <<"--zone">>, <<i.zone>>,
     <<"--ssh-key-file">>, <<PathString(dir, SSH_PRIVATE_KEY_FILENAME)>>,
     <<"--quiet">>, <<"--tunnel-through-iap">> >>
  \o (IF i.container # "" THEN << <<"--container">>, <<i.container>> >> ELSE <<>>)
  \o (IF i.project_id # "" THEN << <<"--project">>, <<i.project_id>> >> ELSE <<>>)

\* cmd without the push of '--project'
BaseCmdNoProject(i, dir) ==
  << <<"compute">>, <<"ssh">>,
     <<IF i.user # "" THEN i.user \o "@" \o i.instance_name ELSE i.instance_name>>,
     <<"--zone">>, <<i.zone>>,
     <<"--ssh-key-file">>, <<PathString(dir, SSH_PRIVATE_KEY_FILENAME)>>,
     <<"--quiet">>, <<"--tunnel-through-iap">> >>
  \o (IF i.container # "" THEN << <<"--container">>, <<i.container>> >> ELSE <<>>)

\* cmd with the text of the private key in place of the path of its file
BaseCmdKeyInline(i, dir) ==
  << <<"compute">>, <<"ssh">>,
     <<IF i.user # "" THEN i.user \o "@" \o i.instance_name ELSE i.instance_name>>,
     <<"--zone">>, <<i.zone>>,
     <<"--ssh-key-file">>, i.ssh_private_key,
     <<"--quiet">>, <<"--tunnel-through-iap">> >>
  \o (IF i.container # "" THEN << <<"--container">>, <<i.container>> >> ELSE <<>>)
  \o (IF i.project_id # "" THEN << <<"--project">>, <<i.project_id>> >> ELSE <<>>)

\* the argument vector before '--command': a sequence of tokens, each token
\* the sequence of its words
BaseCmd(i, dir) ==
  << <<"compute">>, <<"ssh">>,
     <<IF i.user # "" THEN i.user \o "@" \o i.instance_name ELSE i.instance_name>>,
     <<"--zone">>, <<i.zone>>,
     <<"--ssh-key-file">>, <<PathString(dir, SSH_PRIVATE_KEY_FILENAME)>>,
     <<"--quiet">>, <<"--tunnel-through-iap">> >>
  \o (IF i.container # "" THEN << <<"--container">>, <<i.container>> >> ELSE <<>>)
  \o (IF i.project_id # "" THEN << <<"--project">>, <<i.project_id>> >> ELSE <<>>)

\* the command without the double quotes around the text of the script
ScriptCommandNoQuotes(commandData) == <<"bash", "-c">> \o commandData

\* command = 'bash -c "' + commandData + '"'
ScriptCommand(commandData) == <<"bash", "-c">> \o Wrap("\"", commandData, "\"")

\* cmd is built, the script file, when one is given, is read, and the
\* parsed flags are appended
BuildCommand(r) ==
  /\ pc[r] = "build"
  /\ LET cmd == BaseCmd(inp[r], loc[r].sshKeysDir) \o FlagList(inp[r].flags) IN
     IF inp[r].script # ""
     THEN /\ Called(r, "readFile")
          /\ \E readable \in BOOLEAN :
               IF readable
               THEN /\ \E commandData \in ScriptTexts :
                         loc' = [loc EXCEPT ![r].cmd = cmd,
                                            ![r].commandData = commandData,
                                            ![r].command = ScriptCommand(commandData)]
                    /\ Goto(r, "sdk")
                    /\ UNCHANGED <<failed, thrown>>
               ELSE /\ Throw(r, <<"ENOENT:", "no", "such", "file", "or", "directory,",
                                  "open", inp[r].script>>)
                    /\ UNCHANGED loc
     ELSE /\ loc' = [loc EXCEPT ![r].cmd = cmd]
          /\ Goto(r, "sdk")
          /\ UNCHANGED <<trace, failed, thrown>>
  /\ UNCHANGED <<umask, jobEnv, fsVars, env, sdkCache, inp, info, keyDir, postVars>>

\* the SDK is installed whatever the tool cache has
EnsureSDKAlways(r) ==
  /\ pc[r] = "sdk"
  /\ Called(r, "installGcloudSDK")
  /\ \E ok \in BOOLEAN :
       IF ok
       THEN /\ sdkCache' = sdkCache \cup {loc[r].gcloudVersion}
            /\ Goto(r, "component")
            /\ UNCHANGED <<failed, thrown>>
       ELSE /\ Throw(r, <<"failed", "to", "install", "gcloud", "SDK">>)
            /\ UNCHANGED sdkCache
  /\ UNCHANGED <<umask, jobEnv, fsVars, env, inp, loc, info, keyDir, postVars>>

\* the SDK is installed unless the tool cache has the version
EnsureSDK(r) ==
  /\ pc[r] = "sdk"
  /\ IF loc[r].gcloudVersion \notin sdkCache
     THEN /\ Called(r, "installGcloudSDK")
          /\ \E ok \in BOOLEAN :
               IF ok
               THEN /\ sdkCache' = sdkCache \cup {loc[r].gcloudVersion}
                    /\ Goto(r, "component")
                    /\ UNCHANGED <<failed, thrown>>
               ELSE /\ Throw(r, <<"failed", "to", "install", "gcloud", "SDK">>)
                    /\ UNCHANGED sdkCache
     ELSE /\ Called(r, "addPath")
          /\ Goto(r, "component")
          /\ UNCHANGED <<sdkCache, failed, thrown>>
  /\ UNCHANGED <<umask, jobEnv, fsVars, env, inp, loc, info, keyDir, postVars>>

\* the call installGcloudComponent(c)
InstallComponentCall(c) == "installComponent(" \o c \o ")"

\* the component is installed but not put first in cmd
InstallComponentNoUnshift(r) ==
  /\ pc[r] = "component"
  /\ IF inp[r].gcloud_component # ""
     THEN /\ Called(r, InstallComponentCall(inp[r].gcloud_component))
          /\ \E ok \in BOOLEAN :
               IF ok
               THEN /\ Goto(r, "auth")
                    /\ UNCHANGED <<loc, failed, thrown>>
               ELSE /\ Throw(r, <<"failed", "to", "install", "component">>)
                    /\ UNCHANGED loc
     ELSE /\ Goto(r, "auth")
          /\ UNCHANGED <<loc, trace, failed, thrown>>
  /\ UNCHANGED <<umask, jobEnv, fsVars, env, sdkCache, inp, info, keyDir, postVars>>

\* the component, when one is requested, is installed and put first in cmd
InstallComponent(r) ==
  /\ pc[r] = "component"
  /\ IF inp[r].gcloud_component # ""
     THEN /\ Called(r, InstallComponentCall(inp[r].gcloud_component))
          /\ \E ok \in BOOLEAN :
               IF ok
               THEN /\ loc' = [loc EXCEPT ![r].cmd = << <<inp[r].gcloud_component>> >> \o @]
                    /\ Goto(r, "auth")
                    /\ UNCHANGED <<failed, thrown>>
               ELSE /\ Throw(r, <<"failed", "to", "install", "component">>)
                    /\ UNCHANGED loc
     ELSE /\ Goto(r, "auth")
          /\ UNCHANGED <<loc, trace, failed, thrown>>
  /\ UNCHANGED <<umask, jobEnv, fsVars, env, sdkCache, inp, info, keyDir, postVars>>

\* authenticateGcloudSDK when GOOGLE_GHA_CREDS_PATH is set
Authenticate(r) ==
  /\ pc[r] = "auth"
  /\ \E credFile \in BOOLEAN :
       IF credFile
       THEN /\ Called(r, "authenticateGcloudSDK")
            /\ \E ok \in BOOLEAN :
                 IF ok
                 THEN /\ info' = [info EXCEPT ![r] = Append(@, <<"Successfully", "authenticated">>)]
                      /\ Goto(r, "exec")
                      /\ UNCHANGED <<failed, thrown>>
                 ELSE /\ Throw(r, <<"failed", "to", "authenticate">>)
                      /\ UNCHANGED info
       ELSE /\ Goto(r, "exec")
            /\ UNCHANGED <<trace, info, failed, thrown>>
  /\ UNCHANGED <<umask, jobEnv, fsVars, env, sdkCache, inp, loc, keyDir, postVars>>

\* cmd.push('--', sshArgs): the separator and the arguments as two tokens
FinalCmdTwoTokens(cmd, command, sshArgs) ==
  cmd \o << <<"--command">>, command >>
      \o (IF sshArgs # <<>> THEN << <<"--">>, sshArgs >> ELSE <<>>)

\* cmd = [...cmd, '--command', command], then '-- ' + sshArgs as one token
FinalCmd(cmd, command, sshArgs) ==
  cmd \o << <<"--command">>, command >>
      \o (IF sshArgs # <<>> THEN << <<"--">> \o sshArgs >> ELSE <<>>)

\* toolCommand + ' ' + cmd.join(' ')
CommandString(cmd) == <<"gcloud">> \o JoinTokens(cmd)

\* the external process is started again when it could not be started
ExecStartRetry(r) ==
  /\ pc[r] = "exec"
  /\ LET cmd == FinalCmd(loc[r].cmd, loc[r].command, inp[r].ssh_args)
         str == CommandString(cmd)
     IN /\ info' = [info EXCEPT ![r] = Append(@, <<"Running:">> \o str)]
        /\ Called(r, "getExecOutput")
        /\ \E spawned \in BOOLEAN :
             IF spawned
             THEN /\ loc' = [loc EXCEPT ![r].cmd = cmd, ![r].commandString = str]
                  /\ Goto(r, "running")
                  /\ UNCHANGED <<failed, thrown>>
             ELSE /\ Count(r, "getExecOutput") < 2
                  /\ UNCHANGED <<loc, pc, failed, thrown>>
  /\ UNCHANGED <<umask, jobEnv, fsVars, env, sdkCache, inp, keyDir, postVars>>

\* the invocation is logged and the external process is started
ExecStart(r) ==
  /\ pc[r] = "exec"
  /\ LET cmd == FinalCmd(loc[r].cmd, loc[r].command, inp[r].ssh_args)
         str == CommandString(cmd)
     IN /\ loc' = [loc EXCEPT ![r].cmd = cmd, ![r].commandString = str]
        /\ info' = [info EXCEPT ![r] = Append(@, <<"Running:">> \o str)]
        /\ Called(r, "getExecOutput")
        /\ \E spawned \in BOOLEAN :
             IF spawned
             THEN Goto(r, "running") /\ UNCHANGED <<failed, thrown>>
             ELSE Throw(r, <<"Unable", "to", "locate", "executable", "file:", "gcloud">>)
  /\ UNCHANGED <<umask, jobEnv, fsVars, env, sdkCache, inp, keyDir, postVars>>

\* the fallback text whatever stderr holds
ErrMsgFallbackOnly(code, stderr) ==
  <<"command", "exited", ToString(code) \o ",", "but", "stderr", "had",
    "no", "output">>

\* output.stderr || 'command exited N, but stderr had no output'
ErrMsg(code, stderr) ==
  IF stderr # <<>> THEN stderr
  ELSE <<"command", "exited", ToString(code) \o ",", "but", "stderr", "had",
         "no", "output">>

\* 'failed to execute gcloud command (backquoted commandString): ' + errMsg
ExecFailMsg(str, code, stderr) ==
  <<"failed", "to", "execute", "gcloud", "command">>
    \o Wrap("'", str, "':") \o ErrMsg(code, stderr)

\* the external process ends: the outputs are set, a non-zero exit code fails
ExecExit(r) ==
  /\ pc[r] = "running"
  /\ \E code \in ExitCodes, stderr \in Stderrs :
       /\ trace' = [trace EXCEPT ![r] = @ \o <<"setOutput", "setOutput">>]
       /\ IF code # 0
          THEN Throw(r, ExecFailMsg(loc[r].commandString, code, stderr))
          ELSE Goto(r, "done") /\ UNCHANGED <<failed, thrown>>
       /\ loc' = [loc EXCEPT ![r].exitCode = code, ![r].stderr = stderr]
  /\ UNCHANGED <<umask, jobEnv, fsVars, env, sdkCache, inp, info, keyDir, postVars>>

\* run() has returned and the process of the main phase ends
ProcessExit(r) ==
  /\ pc[r] = "done"
  /\ Goto(r, "exited")
  /\ inp' = [inp EXCEPT ![r] = NoInput]
  /\ loc' = [loc EXCEPT ![r] = NoLoc]
  /\ trace' = [trace EXCEPT ![r] = <<>>]
  /\ info' = [info EXCEPT ![r] = <<>>]
  /\ failed' = [failed EXCEPT ![r] = <<>>]
  /\ thrown' = [thrown EXCEPT ![r] = <<>>]
  /\ UNCHANGED <<umask, jobEnv, fsVars, env, sdkCache, keyDir, postVars>>

\* ---------------------------------------------- cleanup phase: src/post.ts
\* fs.rm(dir, { recursive: true, force: true }) removes the tree; a missing
\* directory is not an error
RmTree(d) ==
  /\ dirs' = [dirs EXCEPT ![d] = Absent]
  /\ files' = [p \in DOMAIN files |-> IF p[1] = d THEN Absent ELSE files[p]]

PostResult(res, d, log) ==
  [result |-> res, dir |-> d, log |-> log, setFailed |-> FALSE, threw |-> FALSE]

\* Post without the early return for an unset path: fs.rm(undefined) throws
PostNoSkip(r) ==
  /\ pc[r] = "exited"
  /\ postCount[r] < MaxPost
  /\ postCount' = [postCount EXCEPT ![r] = @ + 1]
  /\ IF env = ""
     THEN /\ postOut' = [postOut EXCEPT ![r] =
                PostResult("rmfailed", "",
                           POST_FAIL_TAG \o <<"The", "\"path\"", "argument", "must",
                                              "be", "of", "type", "string">>)]
          /\ UNCHANGED <<fsVars, env, rmCalls, rmOk>>
     ELSE /\ rmCalls' = [rmCalls EXCEPT ![env] = @ + 1]
          /\ \E ok \in BOOLEAN :
               IF ok
               THEN /\ RmTree(env)
                    /\ rmOk' = [rmOk EXCEPT ![env] = @ + 1]
                    /\ env' = ""
                    /\ postOut' = [postOut EXCEPT ![r] = PostResult("removed", env, <<>>)]
               ELSE /\ postOut' = [postOut EXCEPT ![r] =
                          PostResult("rmfailed", env,
                                     POST_FAIL_TAG \o <<"EPERM:", "operation", "not",
                                                        "permitted,", "rm", env>>)]
                    /\ UNCHANGED <<fsVars, env, rmOk>>
  /\ UNCHANGED <<umask, jobEnv, sdkCache, pc, inp, loc, trace, info, failed, thrown, keyDir>>

\* Post without the delete of the environment variable
PostKeepsHandle(r) ==
  /\ pc[r] = "exited"
  /\ postCount[r] < MaxPost
  /\ postCount' = [postCount EXCEPT ![r] = @ + 1]
  /\ IF env = ""
     THEN /\ postOut' = [postOut EXCEPT ![r] = PostResult("skipped", "", SKIP_MSG)]
          /\ UNCHANGED <<fsVars, env, rmCalls, rmOk>>
     ELSE /\ rmCalls' = [rmCalls EXCEPT ![env] = @ + 1]
          /\ \E ok \in BOOLEAN :
               IF ok
               THEN /\ RmTree(env)
                    /\ rmOk' = [rmOk EXCEPT ![env] = @ + 1]
                    /\ env' = env
                    /\ postOut' = [postOut EXCEPT ![r] = PostResult("removed", env, <<>>)]
               ELSE /\ postOut' = [postOut EXCEPT ![r] =
                          PostResult("rmfailed", env,
                                     POST_FAIL_TAG \o <<"EPERM:", "operation", "not",
                                                        "permitted,", "rm", env>>)]
                    /\ UNCHANGED <<fsVars, env, rmOk>>
  /\ UNCHANGED <<umask, jobEnv, sdkCache, pc, inp, loc, trace, info, failed, thrown, keyDir>>

\* the cleanup phase of invocation r
Post(r) ==
  /\ pc[r] = "exited"
  /\ postCount[r] < MaxPost
  /\ postCount' = [postCount EXCEPT ![r] = @ + 1]
  /\ IF env = ""
     THEN /\ postOut' = [postOut EXCEPT ![r] = PostResult("skipped", "", SKIP_MSG)]
          /\ UNCHANGED <<fsVars, env, rmCalls, rmOk>>
     ELSE /\ rmCalls' = [rmCalls EXCEPT ![env] = @ + 1]
          /\ \E ok \in BOOLEAN :
               IF ok
               THEN /\ RmTree(env)
                    /\ rmOk' = [rmOk EXCEPT ![env] = @ + 1]
                    /\ env' = ""
                    /\ postOut' = [postOut EXCEPT ![r] = PostResult("removed", env, <<>>)]
               ELSE /\ postOut' = [postOut EXCEPT ![r] =
                          PostResult("rmfailed", env,
                                     POST_FAIL_TAG \o <<"EPERM:", "operation", "not",
                                                        "permitted,", "rm", env>>)]
                    /\ UNCHANGED <<fsVars, env, rmOk>>
  /\ UNCHANGED <<umask, jobEnv, sdkCache, pc, inp, loc, trace, info, failed, thrown, keyDir>>

\* ------------------------------------------------------------ the job
\* the steps of a job run one after the other, in order; the cleanup phases
\* run after the last main phase of the job
NoMainRunning == \A q \in Runs : pc[q] \in {"idle", "exited"}
MayStart(r) ==
  /\ NoMainRunning
  /\ \A q \in Runs : q < r => pc[q] = "exited"
  /\ \A q \in Runs : postCount[q] = 0

Main(r) ==
  \/ MayStart(r) /\ RunStart(r)
  \/ Validate(r)
  \/ Mkdir(r)
  \/ WritePrivateKey(r)
  \/ ParsePrivateKey(r)
  \/ WritePublicKey(r)
  \/ BuildCommand(r)
  \/ EnsureSDK(r)
  \/ InstallComponent(r)
  \/ Authenticate(r)
  \/ ExecStart(r)
  \/ ExecExit(r)
  \/ ProcessExit(r)

Next == \E r \in Runs : Main(r) \/ (NoMainRunning /\ Post(r))

Spec == Init /\ [][Next]_vars

\* one invocation whose optional inputs are drawn too, and its cleanup phase
OptRunStart(r) == GetInputs(r, OptionInputs)

OptMain(r) ==
  \/ OptRunStart(r)
  \/ Validate(r)
  \/ Mkdir(r)
  \/ WritePrivateKey(r)
  \/ ParsePrivateKey(r)
  \/ WritePublicKey(r)
  \/ BuildCommand(r)
  \/ EnsureSDK(r)
  \/ InstallComponent(r)
  \/ Authenticate(r)
  \/ ExecStart(r)
  \/ ExecExit(r)
  \/ ProcessExit(r)

OptNext == OptMain(1) \/ Post(1)

SpecOpt == Init /\ [][OptNext]_vars

\* one invocation with any text as the private key, and its cleanup phase
KeyRunStart(r) == GetInputs(r, KeyInputs)

KeyMain(r) ==
  \/ KeyRunStart(r)
  \/ Validate(r)
  \/ Mkdir(r)
  \/ WritePrivateKey(r)
  \/ ParsePrivateKey(r)
  \/ WritePublicKey(r)
  \/ BuildCommand(r)
  \/ EnsureSDK(r)
  \/ InstallComponent(r)
  \/ Authenticate(r)
  \/ ExecStart(r)
  \/ ExecExit(r)
  \/ ProcessExit(r)

KeyNext == KeyMain(1) \/ Post(1)

SpecKey == Init /\ [][KeyNext]_vars

\* ------------------------------------- two invocations in jobs of their own
\* Two jobs on one runner, one invocation each, both pinned to temp-dir: the
\* two main phases interleave, each job has its own environment, and the
\* cleanup phase of a job runs when its main phase has ended.
ConcRuns == {1, 2}

ConcRunStart(r) == GetInputs(r, PinnedInputs)

\* exportVariable into the environment of the job of r, then the validations
ConcValidate(r) ==
  /\ pc[r] = "validate"
  /\ jobEnv' = [jobEnv EXCEPT ![r] = loc[r].sshKeysDir]
  /\ IF ~ExactlyOneOf(inp[r].command, inp[r].script)
     THEN Throw(r, EITHER_MSG)
     ELSE IF ~ValidComponent(inp[r].gcloud_component)
     THEN Throw(r, InvalidComponentMsg(inp[r].gcloud_component))
     ELSE Goto(r, "mkdir") /\ UNCHANGED <<failed, thrown>>
  /\ UNCHANGED <<umask, env, fsVars, sdkCache, inp, loc, trace, info, keyDir, postVars>>

\* the cleanup phase of the job of r, on the environment of that job
ConcPost(r) ==
  /\ pc[r] = "exited"
  /\ postCount[r] < MaxPost
  /\ postCount' = [postCount EXCEPT ![r] = @ + 1]
  /\ LET dir == jobEnv[r] IN
     IF dir = ""
     THEN /\ postOut' = [postOut EXCEPT ![r] = PostResult("skipped", "", SKIP_MSG)]
          /\ UNCHANGED <<fsVars, jobEnv, rmCalls, rmOk>>
     ELSE /\ rmCalls' = [rmCalls EXCEPT ![dir] = @ + 1]
          /\ \E ok \in BOOLEAN :
               IF ok
               THEN /\ RmTree(dir)
                    /\ rmOk' = [rmOk EXCEPT ![dir] = @ + 1]
                    /\ jobEnv' = [jobEnv EXCEPT ![r] = ""]
                    /\ postOut' = [postOut EXCEPT ![r] = PostResult("removed", dir, <<>>)]
               ELSE /\ postOut' = [postOut EXCEPT ![r] =
                          PostResult("rmfailed", dir,
                                     POST_FAIL_TAG \o <<"EPERM:", "operation", "not",
                                                        "permitted,", "rm", dir>>)]
                    /\ UNCHANGED <<fsVars, jobEnv, rmOk>>
  /\ UNCHANGED <<umask, env, sdkCache, pc, inp, loc, trace, info, failed, thrown, keyDir>>

ConcMain(r) ==
  \/ ConcRunStart(r)
  \/ ConcValidate(r)
  \/ Mkdir(r)
  \/ WritePrivateKey(r)
  \/ ParsePrivateKey(r)
  \/ WritePublicKey(r)
  \/ BuildCommand(r)
  \/ EnsureSDK(r)
  \/ InstallComponent(r)
  \/ Authenticate(r)
  \/ ExecStart(r)
  \/ ExecExit(r)
  \/ ProcessExit(r)

ConcNext == \E r \in ConcRuns : ConcMain(r) \/ ConcPost(r)

SpecConc == Init /\ [][ConcNext]_vars

\* ------------------------------------------ the revision of run in part_003
\* This revision of the main phase takes the public key as an input, has no
\* try/catch (an error rejects the promise run returns) and always installs
\* the beta component.
OldInputs ==
  [instance_name : {"vm1"}, zone : {"z1"}, user : {""},
   ssh_public_key : {<<"ssh-key", "x">>}, ssh_private_key : {<<"B", "x">>},
   ssh_keys_dir : KeysDirs, container : {""}, ssh_args : {<<>>},
   command : Commands, script : Scripts, project_id : {"", "p1"},
   gcloud_version : Versions, flags : {NoFlags}]

OldKeyMode == Mode640
OLD_EITHER_MSG == <<"Either", "'command'", "or", "'entrypoint'", "should", "be", "set">>

\* an error thrown by run is not caught
Reject(r, msg) ==
  /\ loc' = [loc EXCEPT ![r].rejected = msg]
  /\ Goto(r, "done")

\* inputs, exportVariable, exactlyOneOf, the base of cmd
OldRunStart(r) ==
  /\ pc[r] = "idle"
  /\ \E i \in OldInputs :
       /\ inp' = [inp EXCEPT ![r] = i]
       /\ env' = StartLoc(i, r, i.gcloud_version).sshKeysDir
       /\ IF ~ExactlyOneOf(i.command, i.script)
          THEN Reject(r, OLD_EITHER_MSG)
          ELSE /\ loc' = [loc EXCEPT ![r] =
                            [StartLoc(i, r, i.gcloud_version) EXCEPT
                               !.cmd = BaseCmd([i EXCEPT !.project_id = ""],
                                               StartLoc(i, r, i.gcloud_version).sshKeysDir)]]
               /\ Goto(r, "mkdir")
  /\ UNCHANGED <<umask, jobEnv, fsVars, sdkCache, trace, info, failed, thrown, keyDir, postVars>>

OldMkdir(r) ==
  /\ pc[r] = "mkdir"
  /\ Called(r, "mkdir")
  /\ LET d == loc[r].sshKeysDir IN
     \E ok \in BOOLEAN :
       IF ok
       THEN /\ dirs' = IF dirs[d].exists THEN dirs
                       ELSE [dirs EXCEPT ![d] = [exists |-> TRUE,
                                                 mode |-> MkdirMode \ umask,
                                                 data |-> <<>>, by |-> r]]
            /\ keyDir' = [keyDir EXCEPT ![r] = d]
            /\ Goto(r, "writePublic")
            /\ UNCHANGED loc
       ELSE /\ Reject(r, <<"EACCES:", "permission", "denied,", "mkdir", d>>)
            /\ UNCHANGED <<dirs, keyDir>>
  /\ UNCHANGED <<umask, jobEnv, files, env, sdkCache, inp, info, failed, thrown, postVars>>

\* fs.writeFile(path, data, { mode: 0o640, flag: 'wx' })
OldWriteFile(r, p, data, next) ==
  IF ~dirs[p[1]].exists
  THEN /\ Reject(r, <<"ENOENT:", "no", "such", "file", "or", "directory,", "open",
                      PathString(p[1], p[2])>>)
       /\ UNCHANGED files
  ELSE IF files[p].exists
  THEN /\ Reject(r, <<"EEXIST:", "file", "already", "exists,", "open",
                      PathString(p[1], p[2])>>)
       /\ UNCHANGED files
  ELSE /\ files' = [files EXCEPT ![p] = [exists |-> TRUE, mode |-> OldKeyMode \ umask,
                                         data |-> data, by |-> r]]
       /\ Goto(r, next)
       /\ UNCHANGED loc

OldWritePublicKey(r) ==
  /\ pc[r] = "writePublic"
  /\ Called(r, "writePublicKey")
  /\ OldWriteFile(r, PublicPath(loc[r].sshKeysDir), inp[r].ssh_public_key, "writePrivate")
  /\ UNCHANGED <<umask, jobEnv, dirs, env, sdkCache, inp, info, failed, thrown, keyDir, postVars>>

OldWritePrivateKey(r) ==
  /\ pc[r] = "writePrivate"
  /\ Called(r, "writePrivateKey")
  /\ OldWriteFile(r, PrivatePath(loc[r].sshKeysDir),
                  NormalizeKey(inp[r].ssh_private_key), "build")
  /\ UNCHANGED <<umask, jobEnv, dirs, env, sdkCache, inp, info, failed, thrown, keyDir, postVars>>

\* container, script and ssh_args: '-- ' + sshArgs is pushed before '--command'
OldBuildCommand(r) ==
  /\ pc[r] = "build"
  /\ LET withArgs(cmd) ==
           cmd \o (IF inp[r].container # ""
                   THEN << <<"--container">>, <<inp[r].container>> >> ELSE <<>>)
               \o (IF inp[r].ssh_args # <<>>
                   THEN << <<"--">> \o inp[r].ssh_args >> ELSE <<>>)
     IN IF inp[r].script # ""
        THEN /\ Called(r, "readFile")
             /\ \E readable \in BOOLEAN :
                  IF readable
                  THEN /\ loc' = [loc EXCEPT ![r].cmd = withArgs(@),
                                             ![r].command = ScriptCommand(ScriptData)]
                       /\ Goto(r, "sdk")
                  ELSE Reject(r, <<"ENOENT:", "no", "such", "file", "or", "directory,",
                                   "open", inp[r].script>>)
        ELSE /\ loc' = [loc EXCEPT ![r].cmd = withArgs(@)]
             /\ Goto(r, "sdk")
             /\ UNCHANGED trace
  /\ UNCHANGED <<umask, jobEnv, fsVars, env, sdkCache, inp, info, failed, thrown, keyDir, postVars>>

\* the latest version is looked up when none is pinned, then the SDK is
\* installed unless the tool cache has it
OldEnsureSDK(r) ==
  /\ pc[r] = "sdk"
  /\ \E queryOk \in BOOLEAN, installOk \in BOOLEAN :
       LET query == NeedsLatest(loc[r].gcloudVersion)
           version == IF query THEN LatestVersion ELSE loc[r].gcloudVersion
           calls == (IF query THEN <<"getLatestGcloudSDKVersion">> ELSE <<>>)
       IN IF query /\ ~queryOk
          THEN /\ trace' = [trace EXCEPT ![r] = @ \o calls]
               /\ Reject(r, <<"failed", "to", "retrieve", "gcloud", "SDK", "version">>)
               /\ UNCHANGED sdkCache
          ELSE IF version \notin sdkCache
          THEN /\ trace' = [trace EXCEPT ![r] = @ \o calls \o <<"installGcloudSDK">>]
               /\ IF installOk
                  THEN /\ sdkCache' = sdkCache \cup {version}
                       /\ loc' = [loc EXCEPT ![r].gcloudVersion = version]
                       /\ Goto(r, "auth")
                  ELSE /\ Reject(r, <<"failed", "to", "install", "gcloud", "SDK">>)
                       /\ UNCHANGED sdkCache
          ELSE /\ trace' = [trace EXCEPT ![r] = @ \o calls \o <<"addPath">>]
               /\ loc' = [loc EXCEPT ![r].gcloudVersion = version]
               /\ Goto(r, "auth")
               /\ UNCHANGED sdkCache
  /\ UNCHANGED <<umask, jobEnv, fsVars, env, inp, info, failed, thrown, keyDir, postVars>>

\* authenticateGcloudSDK, isAuthenticated, --project, isProjectIdSet
OldAuthenticate(r) ==
  /\ pc[r] = "auth"
  /\ Called(r, "authenticateGcloudSDK")
  /\ \E authenticated \in BOOLEAN, projectIdSet \in BOOLEAN :
       IF ~authenticated
       THEN Reject(r, <<"Error", "authenticating", "the", "Cloud", "SDK.">>)
       ELSE IF ~projectIdSet
       THEN Reject(r, <<"No", "project", "Id", "provided.">>)
       ELSE /\ loc' = [loc EXCEPT ![r].cmd =
                         @ \o (IF inp[r].project_id # ""
                               THEN << <<"--project">>, <<inp[r].project_id>> >>
                               ELSE <<>>)]
            /\ Goto(r, "component")
  /\ UNCHANGED <<umask, jobEnv, fsVars, env, sdkCache, inp, info, failed, thrown, keyDir, postVars>>

\* installComponent('beta'); cmd.unshift('beta')
OldInstallBeta(r) ==
  /\ pc[r] = "component"
  /\ Called(r, InstallComponentCall("beta"))
  /\ \E ok \in BOOLEAN :
       IF ok
       THEN /\ loc' = [loc EXCEPT ![r].cmd = << <<"beta">> >> \o @]
            /\ Goto(r, "exec")
       ELSE Reject(r, <<"failed", "to", "install", "component">>)
  /\ UNCHANGED <<umask, jobEnv, fsVars, env, sdkCache, inp, info, failed, thrown, keyDir, postVars>>

OldExecStart(r) ==
  /\ pc[r] = "exec"
  /\ LET cmd == loc[r].cmd \o << <<"--command">>, loc[r].command >>
         str == CommandString(cmd)
     IN /\ info' = [info EXCEPT ![r] = Append(@, <<"Running:">> \o str)]
        /\ Called(r, "getExecOutput")
        /\ \E spawned \in BOOLEAN :
             IF spawned
             THEN /\ loc' = [loc EXCEPT ![r].cmd = cmd, ![r].commandString = str]
                  /\ Goto(r, "running")
             ELSE Reject(r, <<"Unable", "to", "locate", "executable", "file:", "gcloud">>)
  /\ UNCHANGED <<umask, jobEnv, fsVars, env, sdkCache, inp, failed, thrown, keyDir, postVars>>

OldExecExit(r) ==
  /\ pc[r] = "running"
  /\ \E code \in ExitCodes, stderr \in Stderrs :
       /\ trace' = [trace EXCEPT ![r] = @ \o <<"setOutput", "setOutput">>]
       /\ loc' = [loc EXCEPT ![r].exitCode = code, ![r].stderr = stderr,
                             ![r].rejected =
                               IF code # 0
                               THEN ExecFailMsg(loc[r].commandString, code, stderr)
                               ELSE <<>>]
       /\ Goto(r, "done")
  /\ UNCHANGED <<umask, jobEnv, fsVars, env, sdkCache, inp, info, failed, thrown, keyDir, postVars>>

\* ----------------------------------------- the revision of post in part_001
\* The directory is the input ssh_keys_folder; fs.rm has no force option, so
\* a missing directory is an error; an error is passed to setFailed.
OldPost(r) ==
  /\ pc[r] = "exited"
  /\ postCount[r] < MaxPost
  /\ postCount' = [postCount EXCEPT ![r] = @ + 1]
  /\ \E folder \in DirNames, ok \in BOOLEAN :
       /\ rmCalls' = [rmCalls EXCEPT ![folder] = @ + 1]
       /\ IF dirs[folder].exists /\ ok
          THEN /\ RmTree(folder)
               /\ rmOk' = [rmOk EXCEPT ![folder] = @ + 1]
               /\ postOut' = [postOut EXCEPT ![r] = PostResult("removed", folder, <<>>)]
          ELSE /\ postOut' = [postOut EXCEPT ![r] =
                     [PostResult("rmfailed", folder,
                        POST_FAIL_TAG \o
                          (IF dirs[folder].exists
                           THEN <<"EPERM:", "operation", "not", "permitted,", "rm", folder>>
                           ELSE <<"ENOENT:", "no", "such", "file", "or", "directory,",
                                  "lstat", folder>>))
                      EXCEPT !.setFailed = TRUE]]
               /\ UNCHANGED <<fsVars, rmOk>>
  /\ UNCHANGED <<umask, jobEnv, env, sdkCache, pc, inp, loc, trace, info, failed, thrown, keyDir>>

OldMain(r) ==
  \/ MayStart(r) /\ OldRunStart(r)
  \/ OldMkdir(r)
  \/ OldWritePublicKey(r)
  \/ OldWritePrivateKey(r)
  \/ OldBuildCommand(r)
  \/ OldEnsureSDK(r)
  \/ OldAuthenticate(r)
  \/ OldInstallBeta(r)
  \/ OldExecStart(r)
  \/ OldExecExit(r)
  \/ ProcessExit(r)

OldNext == \E r \in Runs : OldMain(r) \/ (NoMainRunning /\ OldPost(r))

\* the earlier revisions of the two phases
SpecOld == Init /\ [][OldNext]_vars

\* ------------------------------------------------------------ properties
GroupOther == {"gr", "gw", "gx", "or", "ow", "ox"}
Gone(d) == ~dirs[d].exists /\ \A p \in FilesOf(d) : ~files[p].exists
InMain(r) == pc[r] \notin {"idle", "exited"}
EExistMsg(p) ==
  FAIL_TAG \o <<"EEXIST:", "file", "already", "exists,", "open", PathString(p[1], p[2])>>

\* C1: a run whose inputs have both command and script set, or neither, fails
\* with the either-command-or-script message before it has made any external
\* call: no release-metadata query, no mkdir, no key file write, no install.
C1_InvalidInputsFailFirst ==
  \A r \in Runs :
    (InMain(r) /\ ~ExactlyOneOf(inp[r].command, inp[r].script)) =>
      /\ trace[r] = <<>>
      /\ keyDir[r] = ""
      /\ \A d \in DirNames : dirs[d].by # r /\ \A p \in FilesOf(d) : files[p].by # r
      /\ pc[r] \in {"validate", "done"}
      /\ (pc[r] = "done" => failed[r] = <<FAIL_TAG \o EITHER_MSG>>)

\* C2: for every invocation that created its key directory, once its cleanup
\* phase has run with a deletion that did not fail, the key directory and
\* both key files are gone.
C2_CleanupRemovesKeyDir ==
  \A r \in Runs :
    (keyDir[r] # "" /\ postCount[r] >= 1 /\ postOut[r].result # "rmfailed") =>
      Gone(keyDir[r])

\* C3: when two invocations of one job each created their own random key
\* directory and each one's cleanup phase has run once without a failing
\* deletion, each directory was deleted exactly once and neither is left.
C3_EachDirDeletedOnce ==
  (/\ \A r \in Runs : /\ keyDir[r] = RandomFilepath(r)
                      /\ postCount[r] = 1
                      /\ postOut[r].result # "rmfailed") =>
    \A r \in Runs : Gone(keyDir[r]) /\ rmOk[keyDir[r]] = 1

\* C5: a key directory created by run has no permission bit for group or
\* other, from its creation on.
C5_KeyDirRestrictive ==
  \A d \in DirNames :
    (dirs[d].exists /\ dirs[d].by # 0) => dirs[d].mode \cap GroupOther = {}

Range(q) == {q[i] : i \in 1..Len(q)}

\* C6: a write of run onto an existing private or public key file fails the
\* run with EEXIST, leaves every existing file as it is, and the run never
\* invokes the external process.
C6_NoOverwrite ==
  [][/\ \A p \in DOMAIN files :
          (files[p].exists /\ files'[p].exists) => files'[p] = files[p]
     /\ \A r \in Runs :
          /\ (/\ pc[r] = "writePrivate" /\ pc'[r] # pc[r]
              /\ files[PrivatePath(loc[r].sshKeysDir)].exists) =>
               /\ pc'[r] = "done"
               /\ failed'[r] = <<EExistMsg(PrivatePath(loc[r].sshKeysDir))>>
               /\ "getExecOutput" \notin Range(trace'[r])
          /\ (/\ pc[r] = "writePublic" /\ pc'[r] # pc[r]
              /\ files[PublicPath(loc[r].sshKeysDir)].exists) =>
               /\ pc'[r] = "done"
               /\ failed'[r] = <<EExistMsg(PublicPath(loc[r].sshKeysDir))>>
               /\ "getExecOutput" \notin Range(trace'[r])
          /\ pc[r] = "done" => pc'[r] \in {"done", "exited"}]_vars

C6_Witness ==
  \E r \in Runs :
    /\ pc[r] = "done"
    /\ failed[r] = <<EExistMsg(PrivatePath(loc[r].sshKeysDir))>>
    /\ files[PrivatePath(loc[r].sshKeysDir)].by # r

\* C7: a cleanup phase that finds no persisted path deletes nothing, issues
\* no fs.rm, logs that the cleanup is skipped and does not fail.
C7_NoPathNoDeletion ==
  [][\A r \in Runs :
       (postCount'[r] = postCount[r] + 1 /\ env = "") =>
         /\ dirs' = dirs /\ files' = files
         /\ rmCalls' = rmCalls /\ rmOk' = rmOk
         /\ postOut'[r].log = SKIP_MSG
         /\ ~postOut'[r].setFailed /\ ~postOut'[r].threw]_vars

C7_Witness ==
  \E r \in Runs : postOut[r].result = "skipped" /\ postOut[r].log = SKIP_MSG

ExecFailed(r) ==
  pc[r] = "done" /\ "setOutput" \in Range(trace[r]) /\ loc[r].exitCode # 0

\* C10 (as claimed): after a non-zero exit the outputs were set (the runner
\* returned) and run failed once, with a message containing the stderr text
\* when there is one and otherwise the text "exited with code N".
C10_ExitedWithCodeText ==
  \A r \in Runs :
    ExecFailed(r) =>
      /\ Len(failed[r]) = 1
      /\ IF loc[r].stderr # <<>>
         THEN Contains(failed[r][1], loc[r].stderr)
         ELSE Contains(failed[r][1],
                       <<"exited", "with", "code", ToString(loc[r].exitCode)>>)

\* C10 (amended): after a non-zero exit the outputs were set (the runner
\* returned) and run failed once, with a message containing the stderr text
\* when there is one and otherwise "command exited N, but stderr had no
\* output" with the exit code N; a zero exit code fails nothing.
C10_FailureCarriesStderrOrCode ==
  \A r \in Runs :
    /\ ExecFailed(r) =>
         /\ Len(failed[r]) = 1
         /\ IF loc[r].stderr # <<>>
            THEN Contains(failed[r][1], loc[r].stderr)
            ELSE Contains(failed[r][1],
                          <<"command", "exited", ToString(loc[r].exitCode) \o ",",
                            "but", "stderr", "had", "no", "output">>)
    /\ (pc[r] = "done" /\ "setOutput" \in Range(trace[r]) /\ loc[r].exitCode = 0) =>
         failed[r] = <<>>

C10_Witness ==
  \E r \in Runs :
    ExecFailed(r) /\ loc[r].stderr = <<>> /\ loc[r].exitCode = 255 /\ failed[r] # <<>>

\* C4: whenever a private key file written by run exists, its mode has
\* neither the group-read nor the other-read bit.
C4_PrivateKeyOwnerOnly ==
  \A d \in DirNames :
    (files[PrivatePath(d)].exists /\ files[PrivatePath(d)].by # 0) =>
      files[PrivatePath(d)].mode \cap {"gr", "or"} = {}

\* C8: no cleanup phase calls setFailed or throws; a failing deletion is
\* logged, and a directory that is already missing is not a failure.
C8_CleanupNeverFails ==
  \A r \in Runs :
    /\ ~postOut[r].setFailed
    /\ ~postOut[r].threw
    /\ postOut[r].result = "rmfailed" =>
         /\ Contains(postOut[r].log, POST_FAIL_TAG)
         /\ ~Contains(postOut[r].log, <<"ENOENT:">>)

\* C11: a run in which an error was thrown has called setFailed exactly once,
\* with the fixed tag followed by the message of that error, which is the
\* first and only error of the run (the run does nothing after it); a run in
\* which no error was thrown has not called setFailed.
C11_OneTaggedFailure ==
  \A r \in Runs :
    /\ Len(thrown[r]) <= 1
    /\ thrown[r] # <<>> =>
         /\ pc[r] = "done"
         /\ failed[r] = << <<"google-github-actions/ssh-compute", "failed", "with:">>
                             \o thrown[r][1] >>
    /\ thrown[r] = <<>> => failed[r] = <<>>
    /\ (pc[r] = "done" /\ ~ValidComponent(inp[r].gcloud_component)
          /\ ExactlyOneOf(inp[r].command, inp[r].script)
          /\ "getLatestGcloudSDKVersion" \notin Range(trace[r])) =>
         failed[r] = << <<"google-github-actions/ssh-compute", "failed", "with:",
                          "invalid", "input", "received", "for", "gcloud_component:",
                          inp[r].gcloud_component>> >>

C11_Witness ==
  \E r \in Runs :
    /\ pc[r] = "done"
    /\ thrown[r] = <<EITHER_MSG>>
    /\ failed[r] = <<FAIL_TAG \o EITHER_MSG>>

C11_WitnessSuccess ==
  \E r \in Runs :
    pc[r] = "done" /\ "setOutput" \in Range(trace[r]) /\ failed[r] = <<>>

\* the run has passed its argument vector to the external process
Invoked(r) == "getExecOutput" \in Range(trace[r])

\* the argument vector that the steps of run build from the inputs i, the key
\* directory dir and the text commandData of the script file
ArgvOf(i, dir, commandData) ==
  FinalCmd((IF i.gcloud_component # "" THEN << <<i.gcloud_component>> >> ELSE <<>>)
             \o BaseCmd(i, dir) \o FlagList(i.flags),
           IF i.script # "" THEN ScriptCommand(commandData) ELSE i.command,
           i.ssh_args)

\* C12: the argument vector passed to the external process, the logged
\* "Running: ..." line and the failure message of a non-zero exit are the ones
\* of every run that differs only in the private key text (same directory,
\* same other inputs, same script text, same exit code and stderr); the text
\* of the key is in none of them, the vector has the path of the key file.
C12_KeyNotInCommandLine ==
  \A r \in Runs :
    Invoked(r) =>
      \A k \in ParsableKeys :
        LET other == ArgvOf([inp[r] EXCEPT !.ssh_private_key = k],
                            loc[r].sshKeysDir, loc[r].commandData)
        IN /\ loc[r].cmd = other
           /\ info[r][Len(info[r])] = <<"Running:", "gcloud">> \o JoinTokens(other)
           /\ ExecFailed(r) =>
                failed[r] = <<FAIL_TAG \o ExecFailMsg(<<"gcloud">> \o JoinTokens(other),
                                                     loc[r].exitCode, loc[r].stderr)>>
           /\ ~Contains(JoinTokens(loc[r].cmd), inp[r].ssh_private_key)
           /\ ~Contains(JoinTokens(loc[r].cmd), loc[r].data)
           /\ \E n \in 1..(Len(loc[r].cmd) - 1) :
                /\ loc[r].cmd[n] = <<"--ssh-key-file">>
                /\ loc[r].cmd[n + 1] =
                     <<loc[r].sshKeysDir \o "/" \o SSH_PRIVATE_KEY_FILENAME>>

C12_Witness ==
  \E r \in Runs :
    /\ ExecFailed(r)
    /\ inp[r].ssh_private_key = <<"B", "x", "B", "x">>
    /\ failed[r] # <<>>
    /\ loc[r].cmd = ArgvOf([inp[r] EXCEPT !.ssh_private_key = <<"B", "x">>],
                           loc[r].sshKeysDir, loc[r].commandData)

\* C13: a run whose gcloud_component is non-empty and neither alpha nor beta
\* (and that has exactly one of command and script) never invokes the SDK
\* install or the component install, and ends failed with the message
\* "invalid input received for gcloud_component: <value>".
C13_InvalidComponentFailsFirst ==
  \A r \in Runs :
    (/\ InMain(r)
     /\ ~ValidComponent(inp[r].gcloud_component)
     /\ ExactlyOneOf(inp[r].command, inp[r].script)) =>
      /\ "installGcloudSDK" \notin Range(trace[r])
      /\ \A c \in Components : InstallComponentCall(c) \notin Range(trace[r])
      /\ pc[r] \in {"validate", "done"}
      /\ pc[r] = "done" =>
           failed[r] = <<FAIL_TAG \o <<"invalid", "input", "received", "for",
                                       "gcloud_component:", inp[r].gcloud_component>> >>

\* the number of times a run made the external call what

\* C14: the tool provisioning step of a run invokes the SDK install once when
\* the resolved version is not in the tool cache, and otherwise adds the
\* cached installation to the search path and installs nothing; no other
\* step of the run invokes either, so a run that is past provisioning has
\* made exactly one of the two calls, once.
C14_InstallIffNotCached ==
  /\ [][\A r \in Runs :
          IF pc[r] = "sdk" /\ pc'[r] # "sdk"
          THEN IF loc[r].gcloudVersion \in sdkCache
               THEN /\ trace'[r] = Append(trace[r], "addPath")
                    /\ sdkCache' = sdkCache
                    /\ pc'[r] = "component"
               ELSE trace'[r] = Append(trace[r], "installGcloudSDK")
          ELSE \A w \in {"installGcloudSDK", "addPath"} :
                 Cardinality({n \in 1..Len(trace'[r]) : trace'[r][n] = w})
                   <= Count(r, w)]_vars
  /\ [](\A r \in Runs :
          /\ Count(r, "installGcloudSDK") + Count(r, "addPath") <= 1
          /\ pc[r] \in {"component", "auth", "exec", "running"} =>
               Count(r, "installGcloudSDK") + Count(r, "addPath") = 1)

C14_Witness ==
  \E r \in Runs :
    /\ pc[r] = "running"
    /\ Count(r, "installGcloudSDK") = 0
    /\ Count(r, "addPath") = 1
    /\ loc[r].gcloudVersion \in sdkCache

C14_WitnessInstall ==
  \E r \in Runs :
    pc[r] = "running" /\ Count(r, "installGcloudSDK") = 1 /\ Count(r, "addPath") = 0

\* C15: a run installs a component only when gcloud_component is alpha or
\* beta, at most once, under that name, after the SDK step and before the
\* external process is invoked; a run that is past the component step has
\* installed it exactly once if one is requested and never otherwise; the
\* first token of the vector passed to the external process is the component
\* when one is requested and "compute" when none is.
C15_ComponentInstalledAndFirst ==
  \A r \in Runs :
    LET c == inp[r].gcloud_component
        installs == {n \in 1..Len(trace[r]) :
                       \E x \in Components : trace[r][n] = InstallComponentCall(x)}
    IN /\ Cardinality(installs) <= 1
       /\ \A n \in installs :
            /\ c \in {"alpha", "beta"}
            /\ trace[r][n] = "installComponent(" \o c \o ")"
            /\ \E m \in 1..(n - 1) : trace[r][m] \in {"installGcloudSDK", "addPath"}
            /\ \A m \in 1..Len(trace[r]) : trace[r][m] = "getExecOutput" => n < m
       /\ pc[r] \in {"auth", "exec", "running"} =>
            (Cardinality(installs) = 1 <=> c \in {"alpha", "beta"})
       /\ Invoked(r) =>
            /\ Cardinality(installs) = 1 <=> c \in {"alpha", "beta"}
            /\ loc[r].cmd[1] = IF c \in {"alpha", "beta"} THEN <<c>> ELSE <<"compute">>
            /\ c \in {"alpha", "beta"} => loc[r].cmd[2] = <<"compute">>

C15_Witness ==
  \E r \in Runs :
    /\ Invoked(r)
    /\ inp[r].gcloud_component = "alpha"
    /\ Count(r, "installComponent(alpha)") = 1
    /\ loc[r].cmd[1] = <<"alpha">>

C15_WitnessNone ==
  \E r \in Runs :
    Invoked(r) /\ inp[r].gcloud_component = "" /\ loc[r].cmd[1] = <<"compute">>

\* the number of tokens the component takes at the start of the vector
ComponentTokens(r) == IF inp[r].gcloud_component # "" THEN 1 ELSE 0

\* C16: the vector passed to the external process has, after the component
\* token if there is one, the nine tokens compute, ssh, <target>, --zone,
\* <zone>, --ssh-key-file, <key dir>/google_compute_engine, --quiet,
\* --tunnel-through-iap, where <target> is <user>@<instance_name> when user
\* is given and <instance_name> otherwise.
C16_BaseTokens ==
  \A r \in Runs :
    Invoked(r) =>
      /\ Len(loc[r].cmd) >= ComponentTokens(r) + 9
      /\ SubSeq(loc[r].cmd, ComponentTokens(r) + 1, ComponentTokens(r) + 9) =
           << <<"compute">>, <<"ssh">>,
              <<IF inp[r].user # "" THEN inp[r].user \o "@" \o inp[r].instance_name
                ELSE inp[r].instance_name>>,
              <<"--zone">>, <<inp[r].zone>>,
              <<"--ssh-key-file">>, <<keyDir[r] \o "/google_compute_engine">>,
              <<"--quiet">>, <<"--tunnel-through-iap">> >>

C16_Witness ==
  \E r \in Runs :
    /\ Invoked(r)
    /\ inp[r].user = "alice"
    /\ inp[r].gcloud_component = "beta"
    /\ loc[r].cmd[4] = <<"alice@vm1">>

\* the indexes of the vector that hold the token flag followed by the token
\* of the one word value
PairAt(v, flag, value) ==
  {n \in 1..(Len(v) - 1) : v[n] = <<flag>> /\ v[n + 1] = <<value>>}

\* the indexes of the vector that hold the token '--command'
CommandAt(v) == {n \in 1..Len(v) : v[n] = <<"--command">>}

\* C17: the vector passed to the external process holds the token --container
\* exactly when container is non-empty, and then once, followed by the
\* container as one token; the same for --project and project_id; both pairs
\* come before the token --command.
C17_ContainerAndProjectPairs ==
  \A r \in Runs :
    Invoked(r) =>
      LET v == loc[r].cmd IN
      /\ Cardinality(CommandAt(v)) = 1
      /\ IF inp[r].container # ""
         THEN /\ Cardinality(PairAt(v, "--container", inp[r].container)) = 1
              /\ \A n \in PairAt(v, "--container", inp[r].container) :
                   \A m \in CommandAt(v) : n + 1 < m
         ELSE \A n \in 1..Len(v) : v[n] # <<"--container">>
      /\ IF inp[r].project_id # ""
         THEN /\ Cardinality(PairAt(v, "--project", inp[r].project_id)) = 1
              /\ \A n \in PairAt(v, "--project", inp[r].project_id) :
                   \A m \in CommandAt(v) : n + 1 < m
         ELSE \A n \in 1..Len(v) : v[n] # <<"--project">>

C17_Witness ==
  \E r \in Runs :
    /\ Invoked(r)
    /\ inp[r].container = "c1" /\ inp[r].project_id = "p1"
    /\ PairAt(loc[r].cmd, "--container", "c1") = {10}
    /\ PairAt(loc[r].cmd, "--project", "p1") = {12}

\* C18: when script is set, the token after --command is the words of
\* bash -c "<text>" for the text that was read from the script file: the first
\* word of the text follows the opening quote, the last one is followed by
\* the closing quote, and every word in between, newlines included, is as in
\* the file.
C18_ScriptCommandExact ==
  \A r \in Runs :
    (Invoked(r) /\ inp[r].script # "") =>
      LET v == loc[r].cmd
          text == loc[r].commandData
      IN /\ inp[r].command = <<>>
         /\ \A n \in CommandAt(v) :
              /\ n < Len(v)
              /\ IF text = <<>>
                 THEN v[n + 1] = <<"bash", "-c", "\"\"">>
                 ELSE /\ Len(v[n + 1]) = Len(text) + 2
                      /\ SubSeq(v[n + 1], 1, 2) = <<"bash", "-c">>
                      /\ \A j \in 1..Len(text) :
                           v[n + 1][j + 2] = (IF j = 1 THEN "\"" ELSE "") \o text[j]
                                               \o (IF j = Len(text) THEN "\"" ELSE "")
              /\ text = <<"echo", "1\necho", "2\n">> =>
                   v[n + 1] = <<"bash", "-c", "\"echo", "1\necho", "2\n\"">>

C18_Witness ==
  \E r \in Runs :
    /\ Invoked(r)
    /\ inp[r].script = "script.sh"
    /\ loc[r].commandData = <<"echo", "1\necho", "2\n">>
    /\ loc[r].cmd[Len(loc[r].cmd)] = <<"bash", "-c", "\"echo", "1\necho", "2\n\"">>

\* the command the run passes: the input command or the one made of the script
EffectiveCommand(r) ==
  IF inp[r].script # ""
  THEN <<"bash", "-c">> \o Wrap("\"", loc[r].commandData, "\"")
  ELSE inp[r].command

\* the tokens the component, the container, the project and the flags give
OptionTokens(r) ==
  {<<"--container">>, <<"--project">>}
    \cup (IF inp[r].gcloud_component # "" THEN {<<inp[r].gcloud_component>>} ELSE {})
    \cup (IF inp[r].container # "" THEN {<<inp[r].container>>} ELSE {})
    \cup (IF inp[r].project_id # "" THEN {<<inp[r].project_id>>} ELSE {})
    \cup Range(FlagList(inp[r].flags))

\* C19: the vector passed to the external process ends with the token
\* --command, then the effective command as one token, then, exactly when
\* ssh_args is non-empty, the one token made of "-- " and ssh_args; the
\* tokens of the component, the container, the project and the flags are all
\* before --command.
C19_CommandLast ==
  \A r \in Runs :
    Invoked(r) =>
      LET v == loc[r].cmd
          k == IF inp[r].ssh_args # <<>> THEN 1 ELSE 0
          n == Len(v) - k - 1
      IN /\ n >= 1
         /\ v[n] = <<"--command">>
         /\ v[n + 1] = EffectiveCommand(r)
         /\ k = 1 => v[n + 2] = <<"--">> \o inp[r].ssh_args
         /\ \A m \in n..Len(v) : v[m] \notin OptionTokens(r)
         /\ n - 1 = ComponentTokens(r) + 9
                      + (IF inp[r].container # "" THEN 2 ELSE 0)
                      + (IF inp[r].project_id # "" THEN 2 ELSE 0)
                      + Len(FlagList(inp[r].flags))

C19_Witness ==
  \E r \in Runs :
    /\ Invoked(r)
    /\ inp[r].ssh_args # <<>>
    /\ Len(FlagList(inp[r].flags)) = 3
    /\ inp[r].command = <<"echo", "hi">>
    /\ SubSeq(loc[r].cmd, Len(loc[r].cmd) - 2, Len(loc[r].cmd)) =
         << <<"--command">>, <<"echo", "hi">>, <<"--", "-vvv", "-L", "80:%INSTANCE%:80">> >>

\* C20: when ssh_args is set, the vector passed to the external process holds
\* the token "--" followed by a token that is ssh_args, whole.
C20_SeparatorThenArgs ==
  \A r \in Runs :
    (Invoked(r) /\ inp[r].ssh_args # <<>>) =>
      \E n \in 1..(Len(loc[r].cmd) - 1) :
        loc[r].cmd[n] = <<"--">> /\ loc[r].cmd[n + 1] = inp[r].ssh_args

\* the run has read its inputs and resolved the gcloud version
InputsRead(r) ==
  /\ InMain(r)
  /\ thrown[r] # <<<<"failed", "to", "retrieve", "gcloud", "SDK", "version">>>>

\* C21: while a run is in its main phase, one directory is used throughout:
\* it is the input ssh_keys_dir when that is non-empty and otherwise a
\* non-empty generated path that no other invocation uses; from the export
\* on it is the value of GOOGLE_SSH_KEYS_TEMP_DIR_VAR; it is the directory
\* made by mkdir, the directory of every key file the run wrote, and the
\* directory part of the token after --ssh-key-file.
C21_OneKeyDirectory ==
  \A r \in Runs :
    InputsRead(r) =>
      LET d == loc[r].sshKeysDir IN
      /\ d # ""
      /\ IF inp[r].ssh_keys_dir # "" THEN d = inp[r].ssh_keys_dir
         ELSE \A q \in Runs \ {r} : keyDir[q] # d
      /\ pc[r] # "validate" => env = d
      /\ keyDir[r] \in {"", d}
      /\ \A e \in DirNames :
           /\ dirs[e].by = r => e = d
           /\ \A f \in FileNames : files[<<e, f>>].by = r => e = d
      /\ "writePublicKey" \in Range(trace[r]) =>
           (keyDir[r] = d /\ files[<<d, "google_compute_engine">>].by = r)
      /\ Invoked(r) =>
           \E n \in 1..(Len(loc[r].cmd) - 1) :
             /\ loc[r].cmd[n] = <<"--ssh-key-file">>
             /\ loc[r].cmd[n + 1] = <<d \o "/google_compute_engine">>

C21_Witness ==
  \E r \in Runs :
    /\ Invoked(r)
    /\ inp[r].ssh_keys_dir = "temp-dir"
    /\ env = "temp-dir"
    /\ keyDir[r] = "temp-dir"
    /\ files[<<"temp-dir", "google_compute_engine">>].by = r
    /\ files[<<"temp-dir", "google_compute_engine.pub">>].by = r

\* the indexes of the BEGIN markers of a text
Markers(s) == {i \in 1..Len(s) : s[i] = "B"}

\* the text is made of blocks, each starting with a marker, with nothing but
\* white space before the first one
BlocksText(s) ==
  /\ Markers(s) # {}
  /\ \A i \in 1..Len(s) : (\A m \in Markers(s) : i < m) => IsWS(s[i])

\* the index of the last character of the block whose marker is at i
BlockEnd(s, i) ==
  IF \E m \in Markers(s) : m > i
  THEN (CHOOSE m \in Markers(s) : m > i /\ \A k \in Markers(s) : k > i => m <= k) - 1
  ELSE Len(s)

\* every block of the text ends in exactly one newline
BlocksEndInOneNewline(s) ==
  \A i \in Markers(s) :
    /\ s[BlockEnd(s, i)] = "\n"
    /\ ~IsWS(s[BlockEnd(s, i) - 1])

\* the private key file the run r wrote
WrittenKey(r) == files[PrivatePath(keyDir[r])]

\* C22 (as claimed): for a key text made of blocks, with or without white
\* space around them, the text run writes is exactly N blocks, N the number
\* of markers of the input, each ending in exactly one newline.
C22_ExactlyNBlocks ==
  \A r \in Runs :
    (keyDir[r] # "" /\ InMain(r) /\ WrittenKey(r).by = r
       /\ BlocksText(inp[r].ssh_private_key)) =>
      LET out == WrittenKey(r).data IN
      /\ Cardinality(Markers(out)) = Cardinality(Markers(inp[r].ssh_private_key))
      /\ BlocksEndInOneNewline(out)
      /\ out[1] = "B"

\* C22 (amended): for a key text made of blocks, with or without white space
\* around them, the text run writes has the N blocks, N the number of markers
\* of the input, each ending in exactly one newline; before the first block
\* it has nothing when the input starts with a marker, and one newline (an
\* empty first line) when the input has white space before its first marker.
C22_NBlocksAfterOptionalEmptyLine ==
  \A r \in Runs :
    (keyDir[r] # "" /\ InMain(r) /\ WrittenKey(r).by = r
       /\ BlocksText(inp[r].ssh_private_key)) =>
      LET out == WrittenKey(r).data
          first == CHOOSE m \in Markers(out) : \A k \in Markers(out) : m <= k
      IN /\ Cardinality(Markers(out)) = Cardinality(Markers(inp[r].ssh_private_key))
         /\ BlocksEndInOneNewline(out)
         /\ SubSeq(out, 1, first - 1) =
              (IF IsWS(inp[r].ssh_private_key[1]) THEN <<"\n">> ELSE <<>>)

C22_Witness ==
  \E r \in Runs :
    /\ InMain(r) /\ keyDir[r] # "" /\ WrittenKey(r).by = r
    /\ inp[r].ssh_private_key = <<"B", "x", "B", " ">>
    /\ WrittenKey(r).data = <<"B", "x", "\n", "B", "\n">>

C22_WitnessLeading ==
  \E r \in Runs :
    /\ InMain(r) /\ keyDir[r] # "" /\ WrittenKey(r).by = r
    /\ inp[r].ssh_private_key = <<" ", "B", "x", " ">>
    /\ WrittenKey(r).data = <<"\n", "B", "x", "\n">>

\* the tokens of a text split at white space outside double quotes, the
\* double quotes removed: cur is the token being read, inq whether a quote is
\* open, has whether a token has begun
RECURSIVE QuoteSplit(_, _, _, _)
QuoteSplit(cs, cur, inq, has) ==
  IF cs = <<>> THEN (IF has THEN <<cur>> ELSE <<>>)
  ELSE IF Head(cs) = "\"" THEN QuoteSplit(Tail(cs), cur, ~inq, TRUE)
  ELSE IF IsWS(Head(cs)) /\ ~inq
  THEN (IF has THEN <<cur>> ELSE <<>>) \o QuoteSplit(Tail(cs), <<>>, FALSE, FALSE)
  ELSE QuoteSplit(Tail(cs), Append(cur, Head(cs)), inq, TRUE)

\* the tokens of the vector between the base tokens and --command
FlagTokens(r) ==
  LET v == loc[r].cmd
      from == ComponentTokens(r) + 9
                + (IF inp[r].container # "" THEN 2 ELSE 0)
                + (IF inp[r].project_id # "" THEN 2 ELSE 0) + 1
      to == (CHOOSE n \in CommandAt(v) : TRUE) - 1
  IN SubSeq(v, from, to)

\* C24: the tokens that flags adds to the vector passed to the external
\* process, between the base tokens and --command, are the pieces of flags
\* split at white space outside double quotes, in order, a quoted run being
\* one token without its quotes and a "=" splitting nothing; flags that give
\* no piece add nothing.
C24_FlagsSplitOutsideQuotes ==
  \A r \in Runs :
    Invoked(r) =>
      LET pieces == QuoteSplit(inp[r].flags, <<>>, FALSE, FALSE)
      IN FlagTokens(r) = [k \in 1..Len(pieces) |-> Words(pieces[k])]

\* the positions of a run between its write of the private key and the end
\* of the external process
PastWrite == {"parse", "writePublic", "build", "sdk", "component", "auth",
              "exec", "running"}

\* C25: with two runs pinned to one directory and interleaved in any way, a
\* write never changes a file that exists; a run whose write of the private
\* key finds the file ends failed with EEXIST and never invokes the external
\* process; and, as long as no cleanup has deleted the directory, every run
\* that is past its write or has invoked the process is the one writer of
\* the private key file, so at most one run is.
C25_OneWriterOnPinnedDir ==
  /\ [][/\ \A p \in DOMAIN files :
            (files[p].exists /\ files'[p].exists) => files'[p] = files[p]
        /\ \A r \in ConcRuns :
             /\ (/\ pc[r] = "writePrivate" /\ pc'[r] # pc[r]
                 /\ files[PrivatePath(loc[r].sshKeysDir)].exists) =>
                  /\ pc'[r] = "done"
                  /\ thrown'[r] = << <<"EEXIST:", "file", "already", "exists,", "open",
                                       "temp-dir/google_compute_engine">> >>
                  /\ failed'[r] # <<>>
                  /\ ~Invoked(r)
             /\ pc[r] = "done" => (pc'[r] \in {"done", "exited"} /\ trace'[r] \in {trace[r], <<>>})
       ]_vars
  /\ []((\A d \in DirNames : rmOk[d] = 0) =>
          \A r \in ConcRuns :
            (pc[r] \in PastWrite \/ Invoked(r)) =>
              /\ files[PrivatePath("temp-dir")].exists
              /\ files[PrivatePath("temp-dir")].by = r
              /\ \A q \in ConcRuns \ {r} : pc[q] \notin PastWrite /\ ~Invoked(q))

C25_Witness ==
  /\ pc[1] = "done"
  /\ failed[1] = <<EExistMsg(PrivatePath("temp-dir"))>>
  /\ pc[2] \in PastWrite
  /\ files[PrivatePath("temp-dir")].by = 2
  /\ \A d \in DirNames : rmOk[d] = 0

\* C29: with two runs pinned to one directory, the private key file named by
\* the --ssh-key-file token of a run exists for as long as the external
\* process of that run is running, whatever the cleanup phase of the other
\* run does.
C29_KeyFileStaysWhileProcessRuns ==
  \A r \in ConcRuns :
    pc[r] = "running" =>
      /\ loc[r].cmd[7] = <<"temp-dir/google_compute_engine">>
      /\ files[PrivatePath("temp-dir")].exists

\* C26: a run that fails because its script file cannot be read has not
\* invoked the external process, and at the end of that main phase there is
\* no private key file in its key directory.
C26_UnreadableScriptLeavesNoKey ==
  \A r \in Runs :
    (/\ pc[r] = "done"
     /\ inp[r].script # ""
     /\ thrown[r] = << <<"ENOENT:", "no", "such", "file", "or", "directory,",
                         "open", inp[r].script>> >>) =>
      /\ ~Invoked(r)
      /\ ~files[PrivatePath(loc[r].sshKeysDir)].exists

\* the steps that come after the input validation, by the names of their calls
LaterSteps ==
  {"mkdir", "writePrivateKey", "writePublicKey", "readFile", "installGcloudSDK",
   "addPath", "authenticateGcloudSDK", "getExecOutput", "setOutput"}
    \cup {InstallComponentCall(c) : c \in Components}

\* the place of the first call of what in the trace of r, 0 when there is none
Pos(r, what) ==
  IF what \in Range(trace[r])
  THEN CHOOSE n \in 1..Len(trace[r]) :
         trace[r][n] = what /\ \A m \in 1..(n - 1) : trace[r][m] # what
  ELSE 0

\* C27: a run invokes the external process at most once and makes no call
\* twice (the two outputs apart); when it has invoked the process, the inputs
\* had passed validation, both key files had been written, the SDK had been
\* installed or taken from the cache and a requested component had been
\* installed, in that order; and once a step has failed the run performs no
\* further step: it makes no call, writes no file and only ends.
C27_OneInvocationAfterAllSteps ==
  /\ [](\A r \in Runs :
          /\ \A s \in LaterSteps \ {"setOutput"} : Count(r, s) <= 1
          /\ Count(r, "setOutput") \in {0, 2}
          /\ Invoked(r) =>
               /\ ExactlyOneOf(inp[r].command, inp[r].script)
               /\ ValidComponent(inp[r].gcloud_component)
               /\ 0 < Pos(r, "mkdir")
               /\ Pos(r, "mkdir") < Pos(r, "writePrivateKey")
               /\ Pos(r, "writePrivateKey") < Pos(r, "writePublicKey")
               /\ files[PrivatePath(loc[r].sshKeysDir)].by = r
               /\ files[PublicPath(loc[r].sshKeysDir)].by = r
               /\ LET sdk == IF "addPath" \in Range(trace[r])
                             THEN Pos(r, "addPath") ELSE Pos(r, "installGcloudSDK")
                      comp == Pos(r, InstallComponentCall(inp[r].gcloud_component))
                  IN /\ Pos(r, "writePublicKey") < sdk
                     /\ sdk < Pos(r, "getExecOutput")
                     /\ inp[r].gcloud_component # "" =>
                          (sdk < comp /\ comp < Pos(r, "getExecOutput"))
                     /\ Count(r, "setOutput") > 0 =>
                          Pos(r, "getExecOutput") < Pos(r, "setOutput"))
  /\ [][\A r \in Runs :
          thrown[r] # <<>> =>
            /\ pc[r] = "done"
            /\ pc'[r] \in {"done", "exited"}
            /\ trace'[r] \in {trace[r], <<>>}
            /\ Len(thrown'[r]) <= 1
            /\ \A p \in DOMAIN files :
                 (files'[p] # files[p] /\ files'[p].exists) => files'[p].by # r
            /\ sdkCache' # sdkCache => \E q \in Runs \ {r} : trace'[q] # trace[q]
       ]_vars

C27_Witness ==
  \E r \in Runs :
    /\ Invoked(r)
    /\ pc[r] = "done"
    /\ thrown[r] = <<>>
    /\ inp[r].gcloud_component # ""
    /\ "installGcloudSDK" \in Range(trace[r])

C27_WitnessFailure ==
  \E r \in Runs :
    /\ pc[r] = "done"
    /\ thrown[r] = << <<"failed", "to", "install", "gcloud", "SDK">> >>
    /\ files[PublicPath(loc[r].sshKeysDir)].by = r

\* C28: in a job with one invocation, when the main phase has failed the
\* input validation (exactly one of command and script, or the component),
\* GOOGLE_SSH_KEYS_TEMP_DIR_VAR is unset, and the cleanup phase calls the
\* removal only for a directory that the main phase created or found with
\* its mkdir.
C28_NoPathAfterFailedValidation ==
  (\A q \in Runs \ {1} : pc[q] = "idle") =>
    /\ (/\ pc[1] = "done"
        /\ \/ thrown[1] = <<EITHER_MSG>>
           \/ thrown[1] = <<InvalidComponentMsg(inp[1].gcloud_component)>>) =>
         env = ""
    /\ \A d \in DirNames : rmCalls[d] > 0 => keyDir[1] = d

\* C30: when the private key of a run cannot be parsed, the run has failed
\* with its private key file, holding the normalised text, in the key
\* directory and has created no public key file there; it has made no call after the
\* write of the private key (no write of the public key, no SDK install, no
\* process invocation); and a file leaves the disk only in a step of a
\* cleanup phase.
C30_KeyWrittenBeforeParse ==
  /\ [](\A r \in Runs :
          (/\ pc[r] = "done"
           /\ thrown[r] = << <<"Failed", "to", "parse", "(unnamed)", "as", "a",
                               "valid", "ssh-private", "format", "key">> >>) =>
            /\ ~Parsable(NormalizeKey(inp[r].ssh_private_key))
            /\ files[PrivatePath(loc[r].sshKeysDir)].exists
            /\ files[PrivatePath(loc[r].sshKeysDir)].by = r
            /\ files[PrivatePath(loc[r].sshKeysDir)].data
                 = NormalizeKey(inp[r].ssh_private_key)
            /\ files[PublicPath(loc[r].sshKeysDir)].by # r
            /\ trace[r][Len(trace[r])] = "writePrivateKey"
            /\ Range(trace[r]) \cap {"writePublicKey", "installGcloudSDK", "addPath",
                                      "getExecOutput"} = {}
            /\ Len(failed[r]) = 1)
  /\ [][\A p \in DOMAIN files :
          (files[p].exists /\ ~files'[p].exists) =>
            \E q \in Runs : postCount'[q] = postCount[q] + 1]_vars

C30_Witness ==
  \E r \in Runs :
    /\ pc[r] = "done"
    /\ thrown[r] = << <<"Failed", "to", "parse", "(unnamed)", "as", "a",
                        "valid", "ssh-private", "format", "key">> >>
    /\ inp[r].ssh_private_key = <<"x">>
    /\ files[PrivatePath(loc[r].sshKeysDir)].data = <<"x", "\n">>
    /\ files[PrivatePath(loc[r].sshKeysDir)].mode = Mode600 \ umask

====
